---- MODULE Spec2Model ----
(***************************************************************************)
(* bleu-smart-flow: the job / profile / payment store, the payment         *)
(* processor as seen through its request/response interface, and the       *)
(* handlers create-checkout, stripe-webhook, stripe-connect and             *)
(* check-stripe-status and the dashboard's markAsPaid.                      *)
(* Every await of a handler is a step of its own, so the handlers'          *)
(* store reads, store writes and processor calls interleave.                *)
(***************************************************************************)
EXTENDS Integers, Sequences, FiniteSets, TLC

VARIABLES jobs, profiles, payments, requests, completed, co, wh, mk,
          accounts, sc, cs, gl, su, newProfiles

vars == <<jobs, profiles, payments, requests, completed, co, wh, mk, accounts, sc, cs,
          gl, su, newProfiles>>

(***************************************************************************)
(* Bounds of the model.                                                    *)
(***************************************************************************)
MaxCheckouts == 2
MaxDeliveries == 2
MaxMarks == 1
MaxSessions == 1
MaxInvocations == 2
MaxConnects == 2
MaxChecks == 2
MaxSignups == 2

(***************************************************************************)
(* Values.                                                                 *)
(***************************************************************************)
NULL == "null"
PLATFORM_STRIPE_ACCOUNT_ID == "acct_1RWAfbLgPKVoUe8t"
MinChargeCents == 50
NoUrl == 0

JobIds == {"j1", "j2"}
GhostJobId == "j0"
Companies == {"c1"}
UserIds == {"u1", "u2"}
AccountIds == {PLATFORM_STRIPE_ACCOUNT_ID, "acct_X"}

\* A DECIMAL(10,2) column value, or a value parseFloat turns into NaN.
Dec(w, f) == [nan |-> FALSE, whole |-> w, frac |-> f]
NaNPrice == [nan |-> TRUE, whole |-> 0, frac |-> 0]
Prices == {NaNPrice, Dec(-5, 0), Dec(0, 0), Dec(0, 30), Dec(0, 50), Dec(0, 70),
           Dec(10, 10), Dec(100, 0)}

\* jobPrice * 100 of the source, exact for every two-decimal value.
Cents(p) == p.whole * 100 + p.frac
\* amount_total / 100 of the webhook handler: minor units to a decimal amount.
FromCents(c) == Dec(c \div 100, c % 100)

\* Math.round(jobPrice * 100)
\* The earlier revision that charged the customer the price plus 5%:
\* Math.round(jobPrice * 1.05 * 100).
JobPriceWithMarkup(p) == (Cents(p) * 105 + 50) \div 100

JobPriceInCents(p) == Cents(p)

\* Prices (in minor units) of the model's range at which the IEEE-754 double
\* jobPrice * 0.05 * 100 lies just below the half and Math.round rounds down.
HalfCentLow == {70}

\* A fee of ten percent, rounded half up.
RoundFeeTenPercent(c) == (c * 10 + 50) \div 100

\* Math.round(jobPrice * 0.05 * 100), for a positive price.
RoundFee(c) ==
  LET q == (c * 5) \div 100
      r == (c * 5) % 100
  IN IF r > 50 \/ (r = 50 /\ c \notin HalfCentLow) THEN q + 1 ELSE q

\* The fee computed whatever the routing.
PlatformFeeAlways(p, use) == RoundFee(Cents(p))

PlatformFeeInCents(p, use) == IF use THEN RoundFee(Cents(p)) ELSE 0

\* A price check that rejects only what is not a number.
InvalidPriceNaNOnly(p) == p.nan

\* isNaN(jobPrice) || jobPrice <= 0
InvalidPrice(p) == p.nan \/ Cents(p) <= 0

(***************************************************************************)
(* Store rows.                                                             *)
(***************************************************************************)
JobRow(p, c) == [status |-> "pending", price |-> p, company_id |-> c, payment_url |-> NoUrl]
ProfileRow(c, a, k) == [company_id |-> c, stripe_account_id |-> a, stripe_connected |-> k]

CoIdle == [pc |-> "idle", jobId |-> NULL, price |-> NaNPrice, company |-> NULL,
           acct |-> NULL, use |-> FALSE, profileError |-> FALSE, sid |-> 0, nreq |-> 0, wrote |-> "none",
           resp |-> [flag |-> FALSE, success |-> FALSE, url |-> NoUrl, sessionId |-> 0,
                     error |-> "none", method |-> NULL, dest |-> NULL, fee |-> 0]]

WhIdle == [pc |-> "idle", sig |-> "none", configured |-> FALSE, type |-> NULL, sid |-> 0, jobId |-> NULL,
           amount_total |-> 0, status |-> 0]

MkIdle == [pc |-> "idle", jobId |-> NULL, price |-> NaNPrice, outcome |-> "none"]

ScIdle == [pc |-> "idle", hdr |-> FALSE, user |-> NULL, acct |-> NULL, wrote |-> "none",
           resp |-> [status |-> 0, success |-> FALSE, url |-> NULL, account_id |-> NULL]]

CsIdle == [pc |-> "idle", hdr |-> FALSE, user |-> NULL, acct |-> NULL,
           charges_enabled |-> FALSE, payouts_enabled |-> FALSE,
           resp |-> [status |-> 0, connected |-> FALSE, account_id |-> NULL]]

\* What generatePaymentLink showed for an invocation of create-checkout.
GlIdle == "none"

\* The company id of an invite link that names no company.
GhostCompany == "c0"
\* The company ids an invite link may carry.
InviteIds == Companies \cup {GhostCompany}
\* The ids gen_random_uuid() gives the companies of new profiles, in order.
NewCompanyIds == <<"c_N1", "c_N2", "c_N3", "c_N4">>

\* A sign-up through the Auth page: the invite of its link, whether signUp
\* returned a session, and the toast it ended with.
\* The place of a profile row that does not exist.
NoProfile == [company_id |-> NULL, role |-> NULL]

SuIdle == [pc |-> "idle", invite |-> NULL, session |-> FALSE, toast |-> "none"]

CoInv == 1..MaxCheckouts
SuInv == 1..MaxSignups
WhInv == 1..MaxDeliveries
MkInv == 1..MaxMarks
ScInv == 1..MaxConnects
CsInv == 1..MaxChecks

\* A processor account: what accounts.retrieve reports of it.
Account(c, p) == [charges_enabled |-> c, payouts_enabled |-> p]

\* The ids the processor gives the accounts it creates, in order.
NewAccountIds == <<"acct_N1", "acct_N2", "acct_N3", "acct_N4">>

\* The accounts behind the ids profiles hold before any onboarding of a run.
ExistingAccounts == [a \in AccountIds \cup {"acct_Y"} |-> Account(TRUE, TRUE)]

\* Handler invocations begun so far, of all handlers.
Started ==
  Cardinality({i \in CoInv : co[i].pc # "idle"})
  + Cardinality({w \in WhInv : wh[w].pc # "idle"})
  + Cardinality({m \in MkInv : mk[m].pc # "idle"})
  + Cardinality({k \in ScInv : sc[k].pc # "idle"})
  + Cardinality({k \in CsInv : cs[k].pc # "idle"})
  + Cardinality({k \in SuInv : su[k].pc # "idle"})

\* Invocation slots are taken in order: slot n starts after slot n - 1 has,
\* and a run has at most MaxInvocations invocations.
InOrder(f, n) ==
  /\ Started < MaxInvocations
  /\ IF n = 1 THEN TRUE ELSE f[n - 1].pc # "idle"

\* A job row as its creation leaves it: status 'pending', no checkout URL.
\* j2 is the $100.00 job of a company; j1 ranges over prices and owners.
JobRows(j) ==
  IF j = "j1" THEN {JobRow(p, c) : p \in Prices, c \in Companies \cup {NULL}}
  ELSE {JobRow(Dec(100, 0), "c1")}

\* u1 is the company's owner, in any state of onboarding; u2 is a teammate,
\* without an account or with a verified one of their own.
ProfileRows(u) ==
  IF u = "u1"
    THEN {ProfileRow(c, a, k) : c \in Companies, a \in AccountIds \cup {NULL}, k \in BOOLEAN}
    ELSE {ProfileRow("c1", NULL, FALSE), ProfileRow("c1", "acct_Y", TRUE)}

Idle ==
  /\ co = [i \in CoInv |-> CoIdle]
  /\ wh = [w \in WhInv |-> WhIdle]
  /\ mk = [m \in MkInv |-> MkIdle]
  /\ sc = [k \in ScInv |-> ScIdle]
  /\ cs = [k \in CsInv |-> CsIdle]
  /\ gl = [i \in CoInv |-> GlIdle]
  /\ su = [k \in SuInv |-> SuIdle]
  /\ newProfiles = [k \in SuInv |-> NoProfile]

\* Any jobs and profiles, nothing issued, nothing paid.
InitCheckout ==
  /\ jobs \in [JobIds -> UNION {JobRows(j) : j \in JobIds}]
  /\ \A j \in JobIds : jobs[j] \in JobRows(j)
  /\ profiles \in [UserIds -> UNION {ProfileRows(u) : u \in UserIds}]
  /\ \A u \in UserIds : profiles[u] \in ProfileRows(u)
  /\ payments = <<>>
  /\ requests = <<>>
  /\ completed = {}
  /\ accounts = ExistingAccounts
  /\ Idle

(***************************************************************************)
(* create-checkout                                                         *)
(***************************************************************************)
\* An error body without the success key.
CoFailUnflagged(c, err) == [c EXCEPT !.pc = "done", !.resp.error = err]

\* JSON.stringify({ success: false, error }): resp.flag records that the body
\* carries the success key.
CoFail(c, err) ==
  [c EXCEPT !.pc = "done", !.resp.flag = TRUE, !.resp.success = FALSE, !.resp.error = err]

\* Lines 29-83: the secret key is configured, the body parses, jobId is given.
CoStart(i) ==
  /\ co[i].pc = "idle"
  /\ InOrder(co, i)
  /\ \E key \in BOOLEAN, body \in JobIds \cup {GhostJobId, NULL, "not json"} :
       co' = [co EXCEPT ![i] =
                IF ~key THEN CoFail(@, "config")
                ELSE IF body = "not json" THEN CoFail(@, "body")
                ELSE IF body = NULL THEN CoFail(@, "job id required")
                ELSE [@ EXCEPT !.pc = "fetchJob", !.jobId = body]]
  /\ UNCHANGED <<jobs, profiles, payments, requests, completed, wh, mk, accounts, sc, cs, gl, su, newProfiles>>

\* from('jobs').select('*').eq('id', jobId).single(): the row, or an error
\* when the query fails or does not match exactly one row.
SingleJob(jobId, dbok) ==
  IF dbok /\ jobId \in JobIds THEN [data |-> jobId, error |-> FALSE]
                             ELSE [data |-> NULL, error |-> TRUE]

\* Lines 91-125: the job lookup, jobError before !job.
CoFetchJob(i) ==
  /\ co[i].pc = "fetchJob"
  /\ \E dbok \in BOOLEAN :
       co' = [co EXCEPT ![i] =
                IF SingleJob(co[i].jobId, dbok).error THEN CoFail(@, "fetch job")
                ELSE IF SingleJob(co[i].jobId, dbok).data = NULL THEN CoFail(@, "job not found")
                ELSE [@ EXCEPT !.pc = "routing",
                               !.price = jobs[co[i].jobId].price,
                               !.company = jobs[co[i].jobId].company_id]]
  /\ UNCHANGED <<jobs, profiles, payments, requests, completed, wh, mk, accounts, sc, cs, gl, su, newProfiles>>

\* The rows .eq('company_id', c).eq('stripe_connected', true) selects.
ConnectedProfiles(c) ==
  {u \in UserIds : profiles[u].company_id = c /\ profiles[u].stripe_connected}

\* The routing decision without the comparison with the platform account.
RoutingUnguarded(company, dbok) ==
  IF company = NULL THEN [acct |-> NULL, use |-> FALSE, profileError |-> FALSE]
  ELSE IF ~dbok \/ Cardinality(ConnectedProfiles(company)) # 1
    THEN [acct |-> NULL, use |-> FALSE, profileError |-> TRUE]
  ELSE LET a == profiles[CHOOSE u \in ConnectedProfiles(company) : TRUE].stripe_account_id
       IN [acct |-> a, use |-> a # NULL, profileError |-> FALSE]

\* A lookup that takes a first matching row instead of requiring exactly one.
RoutingFirstRow(company, dbok) ==
  IF company = NULL THEN [acct |-> NULL, use |-> FALSE, profileError |-> FALSE]
  ELSE IF ~dbok \/ ConnectedProfiles(company) = {}
    THEN [acct |-> NULL, use |-> FALSE, profileError |-> TRUE]
  ELSE LET a == profiles[CHOOSE u \in ConnectedProfiles(company) : TRUE].stripe_account_id
       IN IF a = NULL THEN [acct |-> NULL, use |-> FALSE, profileError |-> FALSE]
          ELSE [acct |-> a, use |-> a # PLATFORM_STRIPE_ACCOUNT_ID, profileError |-> FALSE]

\* Lines 129-164: companyStripeAccountId and useConnectedAccount. .single()
\* is an error unless exactly one row matches.
Routing(company, dbok) ==
  IF company = NULL THEN [acct |-> NULL, use |-> FALSE, profileError |-> FALSE]
  ELSE IF ~dbok \/ Cardinality(ConnectedProfiles(company)) # 1
    THEN [acct |-> NULL, use |-> FALSE, profileError |-> TRUE]
  ELSE LET a == profiles[CHOOSE u \in ConnectedProfiles(company) : TRUE].stripe_account_id
       IN IF a = NULL THEN [acct |-> NULL, use |-> FALSE, profileError |-> FALSE]
          ELSE [acct |-> a, use |-> a # PLATFORM_STRIPE_ACCOUNT_ID, profileError |-> FALSE]

\* Routing and the price check without the processor's minimum.
CoRoutingNoMinimum(i) ==
  /\ co[i].pc = "routing"
  /\ \E dbok \in BOOLEAN :
       LET r == Routing(co[i].company, dbok)
           c == [co[i] EXCEPT !.acct = r.acct, !.use = r.use,
                              !.profileError = r.profileError]
       IN co' = [co EXCEPT ![i] =
                   IF InvalidPrice(c.price) THEN CoFail(c, "invalid price")
                   ELSE [c EXCEPT !.pc = "createSession"]]
  /\ UNCHANGED <<jobs, profiles, payments, requests, completed, wh, mk, accounts, sc, cs, gl, su, newProfiles>>

\* Lines 129-217: routing, then the price checks, with no await in between.
CoRouting(i) ==
  /\ co[i].pc = "routing"
  /\ \E dbok \in BOOLEAN :
       LET r == Routing(co[i].company, dbok)
           c == [co[i] EXCEPT !.acct = r.acct, !.use = r.use,
                              !.profileError = r.profileError]
       IN co' = [co EXCEPT ![i] =
                   IF InvalidPrice(c.price) THEN CoFail(c, "invalid price")
                   ELSE IF JobPriceInCents(c.price) < MinChargeCents
                     THEN CoFail(c, "price too low")
                   ELSE [c EXCEPT !.pc = "createSession"]]
  /\ UNCHANGED <<jobs, profiles, payments, requests, completed, wh, mk, accounts, sc, cs, gl, su, newProfiles>>

\* Lines 194-263: sessionConfig, with payment_intent_data when routed to the
\* connected account, as the request the processor receives.
SessionConfig(i, c) ==
  LET fee == PlatformFeeInCents(c.price, c.use)
      pid == c.use /\ c.acct # NULL
  IN [inv |-> i,
      unit_amount |-> JobPriceInCents(c.price),
      has_pid |-> pid,
      application_fee_amount |-> IF pid THEN fee ELSE 0,
      destination |-> IF pid THEN c.acct ELSE NULL,
      stripeAccount |-> IF pid THEN c.acct ELSE NULL,
      meta_job |-> c.jobId,
      meta_fee |-> FromCents(fee),
      meta_routing |-> IF c.use THEN "connected_account" ELSE "platform_only",
      fallback |-> FALSE,
      outcome |-> "ok"]

\* A retry that sends the same payment_intent_data again.
FallbackConfigUnstripped(cfg) == [cfg EXCEPT !.fallback = TRUE]

\* Lines 315-318: a copy of sessionConfig without payment_intent_data, sent
\* without the stripeAccount option.
FallbackConfig(cfg) ==
  [cfg EXCEPT !.has_pid = FALSE, !.application_fee_amount = 0, !.destination = NULL,
              !.stripeAccount = NULL, !.fallback = TRUE]

\* What the processor may answer to a session request.
Outcomes(cfg) == {"ok", "error"} \cup (IF cfg.has_pid THEN {"self_transfer"} ELSE {})

\* session.url of the session created by request n.
SessionUrl(n) == n

\* A handler that falls back to a second request after any rejection.
CoCreateSessionRetryingAll(i) ==
  /\ co[i].pc = "createSession"
  /\ \E o \in Outcomes(SessionConfig(i, co[i])) :
       /\ requests' = Append(requests, [SessionConfig(i, co[i]) EXCEPT !.outcome = o])
       /\ co' = [co EXCEPT ![i] =
                   IF o = "ok"
                     THEN [@ EXCEPT !.pc = "updateJob", !.sid = Len(requests) + 1,
                                    !.nreq = @ + 1]
                   ELSE [@ EXCEPT !.pc = "fallback", !.nreq = @ + 1]]
  /\ UNCHANGED <<jobs, profiles, payments, completed, wh, mk, accounts, sc, cs, gl, su, newProfiles>>

\* Lines 265-269 and 307-337: stripe.checkout.sessions.create.
CoCreateSession(i) ==
  /\ co[i].pc = "createSession"
  /\ \E o \in Outcomes(SessionConfig(i, co[i])) :
       /\ requests' = Append(requests, [SessionConfig(i, co[i]) EXCEPT !.outcome = o])
       /\ co' = [co EXCEPT ![i] =
                   IF o = "ok"
                     THEN [@ EXCEPT !.pc = "updateJob", !.sid = Len(requests) + 1,
                                    !.nreq = @ + 1]
                   ELSE IF o = "self_transfer"
                     THEN [@ EXCEPT !.pc = "fallback", !.nreq = @ + 1]
                   ELSE CoFail([@ EXCEPT !.nreq = @ + 1], "stripe")]
  /\ UNCHANGED <<jobs, profiles, payments, completed, wh, mk, accounts, sc, cs, gl, su, newProfiles>>

\* A handler that keeps the URL a job already has (the first write wins).
CoUpdateJobIfUnset(i) ==
  /\ co[i].pc = "updateJob"
  /\ \E dbok \in BOOLEAN :
       /\ jobs' = IF dbok /\ jobs[co[i].jobId].payment_url = NoUrl
                    THEN [jobs EXCEPT ![co[i].jobId].payment_url = SessionUrl(co[i].sid)]
                    ELSE jobs
       /\ co' = [co EXCEPT ![i] =
                   [@ EXCEPT !.pc = "done",
                             !.wrote = IF dbok THEN "ok" ELSE "failed",
                             !.resp = [flag |-> TRUE, success |-> TRUE, url |-> SessionUrl(co[i].sid),
                                       sessionId |-> co[i].sid, error |-> "none",
                                       method |-> IF co[i].use THEN "connected_account"
                                                               ELSE "platform_only",
                                       dest |-> IF co[i].use THEN co[i].acct ELSE "platform",
                                       fee |-> PlatformFeeInCents(co[i].price, co[i].use)]]]
  /\ UNCHANGED <<profiles, payments, requests, completed, wh, mk, accounts, sc, cs, gl, su, newProfiles>>

\* A handler that fails the request when the write of the URL fails.
CoUpdateJobStrict(i) ==
  /\ co[i].pc = "updateJob"
  /\ \E dbok \in BOOLEAN :
       /\ jobs' = IF dbok
                    THEN [jobs EXCEPT ![co[i].jobId].payment_url = SessionUrl(co[i].sid)]
                    ELSE jobs
       /\ co' = [co EXCEPT ![i] =
                   IF dbok
                     THEN [@ EXCEPT !.pc = "done", !.wrote = "ok",
                                    !.resp = [flag |-> TRUE, success |-> TRUE, url |-> SessionUrl(co[i].sid),
                                              sessionId |-> co[i].sid, error |-> "none",
                                              method |-> NULL, dest |-> NULL, fee |-> 0]]
                     ELSE CoFail([@ EXCEPT !.wrote = "failed"], "update job")]
  /\ UNCHANGED <<profiles, payments, requests, completed, wh, mk, accounts, sc, cs, gl, su, newProfiles>>

\* Lines 274-306: write the URL to the job, then respond success whether or
\* not the write failed.
CoUpdateJob(i) ==
  /\ co[i].pc = "updateJob"
  /\ \E dbok \in BOOLEAN :
       /\ jobs' = IF dbok
                    THEN [jobs EXCEPT ![co[i].jobId].payment_url = SessionUrl(co[i].sid)]
                    ELSE jobs
       /\ co' = [co EXCEPT ![i] =
                   [@ EXCEPT !.pc = "done",
                             !.wrote = IF dbok THEN "ok" ELSE "failed",
                             !.resp = [flag |-> TRUE, success |-> TRUE, url |-> SessionUrl(co[i].sid),
                                       sessionId |-> co[i].sid, error |-> "none",
                                       method |-> IF co[i].use THEN "connected_account"
                                                               ELSE "platform_only",
                                       dest |-> IF co[i].use THEN co[i].acct ELSE "platform",
                                       fee |-> PlatformFeeInCents(co[i].price, co[i].use)]]]
  /\ UNCHANGED <<profiles, payments, requests, completed, wh, mk, accounts, sc, cs, gl, su, newProfiles>>

\* Lines 311-333: the self-transfer fallback.
CoFallback(i) ==
  /\ co[i].pc = "fallback"
  /\ LET cfg == FallbackConfig(SessionConfig(i, co[i]))
     IN \E o \in Outcomes(cfg) :
          /\ requests' = Append(requests, [cfg EXCEPT !.outcome = o])
          /\ co' = [co EXCEPT ![i] =
                      IF o = "ok"
                        THEN [@ EXCEPT !.pc = "done", !.sid = Len(requests) + 1,
                                       !.nreq = @ + 1,
                                       !.resp = [flag |-> TRUE, success |-> TRUE,
                                                 url |-> SessionUrl(Len(requests) + 1),
                                                 sessionId |-> Len(requests) + 1,
                                                 error |-> "none", method |-> NULL,
                                                 dest |-> NULL, fee |-> 0]]
                      ELSE CoFail([@ EXCEPT !.nreq = @ + 1], "stripe")]
  /\ UNCHANGED <<jobs, profiles, payments, completed, wh, mk, accounts, sc, cs, gl, su, newProfiles>>

(***************************************************************************)
(* The customer and the processor's notifications                          *)
(***************************************************************************)
\* The customer completes the hosted checkout of a created session.
CustomerPays(s) ==
  /\ s \in 1..Len(requests)
  /\ requests[s].outcome = "ok"
  /\ s \notin completed
  /\ completed' = completed \cup {s}
  /\ UNCHANGED <<jobs, profiles, payments, requests, co, wh, mk, accounts, sc, cs, gl, su, newProfiles>>

Event(t, s, j, a) == [type |-> t, sid |-> s, jobId |-> j, amount_total |-> a]

\* Events the processor signs: a completed checkout of one of this system's
\* sessions (amount_total is what the session charged), a completed checkout
\* of a session without job_id metadata, an event of another type.
SignedEvents ==
  {Event("checkout.session.completed", s, requests[s].meta_job, requests[s].unit_amount) :
     s \in completed}
  \cup {Event("checkout.session.completed", 0, NULL, 0),
        Event("payment_intent.succeeded", 0, NULL, 0)}

\* Payloads anyone can post: they name whatever job they like.
ForgedEvents == {Event("checkout.session.completed", 0, j, 0) : j \in JobIds}

(***************************************************************************)
(* stripe-webhook                                                          *)
(***************************************************************************)
WhDone(r, st) == [r EXCEPT !.pc = "done", !.status = st]

\* A handler that trusts the payload whatever its signature.
ConstructEventUnverified(sig) == TRUE

\* stripe.webhooks.constructEvent: the event, or an exception unless the
\* signature is the processor's.
ConstructEvent(sig) == sig = "good"

\* A handler that acknowledges a completed checkout without job_id.
WhReceiveAcceptingNoJob(w) ==
  /\ wh[w].pc = "idle"
  /\ InOrder(wh, w)
  /\ \E sig \in {"none", "bad", "good"}, cfgok \in BOOLEAN :
       \E ev \in IF sig = "good" THEN SignedEvents ELSE ForgedEvents :
         LET q == [wh[w] EXCEPT !.sig = sig, !.configured = cfgok]
             r == [q EXCEPT !.type = ev.type, !.sid = ev.sid,
                            !.jobId = ev.jobId, !.amount_total = ev.amount_total]
         IN wh' = [wh EXCEPT ![w] =
                     IF sig = "none" \/ ~cfgok THEN WhDone(q, 500)
                     ELSE IF ~ConstructEvent(sig) THEN WhDone(q, 400)
                     ELSE IF ev.type # "checkout.session.completed" THEN WhDone(r, 200)
                     ELSE IF ev.jobId = NULL THEN WhDone(r, 200)
                     ELSE [r EXCEPT !.pc = "updateJob"]]
  /\ UNCHANGED <<jobs, profiles, payments, requests, completed, co, mk, accounts, sc, cs, gl, su, newProfiles>>

\* Lines 17-58: signature header, configuration, constructEvent, event type,
\* job_id of the metadata.
WhReceive(w) ==
  /\ wh[w].pc = "idle"
  /\ InOrder(wh, w)
  /\ \E sig \in {"none", "bad", "good"}, cfgok \in BOOLEAN :
       \E ev \in IF sig = "good" THEN SignedEvents ELSE ForgedEvents :
         LET q == [wh[w] EXCEPT !.sig = sig, !.configured = cfgok]
             r == [q EXCEPT !.type = ev.type, !.sid = ev.sid,
                            !.jobId = ev.jobId, !.amount_total = ev.amount_total]
         IN wh' = [wh EXCEPT ![w] =
                     IF sig = "none" \/ ~cfgok THEN WhDone(q, 500)
                     ELSE IF ~ConstructEvent(sig) THEN WhDone(q, 400)
                     ELSE IF ev.type # "checkout.session.completed" THEN WhDone(r, 200)
                     ELSE IF ev.jobId = NULL THEN WhDone(r, 400)
                     ELSE [r EXCEPT !.pc = "updateJob"]]
  /\ UNCHANGED <<jobs, profiles, payments, requests, completed, co, mk, accounts, sc, cs, gl, su, newProfiles>>

\* An update that also overwrites the price with the session's total.
WhUpdateJobStoringTotal(w) ==
  /\ wh[w].pc = "updateJob"
  /\ \E dbok \in BOOLEAN :
       IF dbok
         THEN /\ jobs' = [jobs EXCEPT ![wh[w].jobId].status = "paid",
                                      ![wh[w].jobId].price = Dec(wh[w].amount_total, 0)]
              /\ wh' = [wh EXCEPT ![w].pc = "insertPayment"]
         ELSE /\ wh' = [wh EXCEPT ![w] = WhDone(@, 500)]
              /\ UNCHANGED jobs
  /\ UNCHANGED <<profiles, payments, requests, completed, co, mk, accounts, sc, cs, gl, su, newProfiles>>

\* Lines 66-75: update jobs set status = 'paid' where id = jobId.
WhUpdateJob(w) ==
  /\ wh[w].pc = "updateJob"
  /\ \E dbok \in BOOLEAN :
       IF dbok
         THEN /\ jobs' = [jobs EXCEPT ![wh[w].jobId].status = "paid"]
              /\ wh' = [wh EXCEPT ![w].pc = "insertPayment"]
         ELSE /\ wh' = [wh EXCEPT ![w] = WhDone(@, 500)]
              /\ UNCHANGED jobs
  /\ UNCHANGED <<profiles, payments, requests, completed, co, mk, accounts, sc, cs, gl, su, newProfiles>>

\* The total stored as reported, in minor units, in a column of major units.
PaymentAmountInMinorUnits(total) == Dec(total, 0)

\* session.amount_total ? session.amount_total / 100 : 0
PaymentAmount(total) == IF total # 0 THEN FromCents(total) ELSE FromCents(0)

\* A payments row. sid is not a column: it records which checkout session the
\* insert was made for (0 for a manual payment).
PaymentRow(j, a, method, s) ==
  [job_id |-> j, amount |-> a, payment_status |-> "paid", payment_method |-> method,
   sid |-> s]

\* A handler that answers received: true although the insert failed.
WhInsertPaymentSwallowing(w) ==
  /\ wh[w].pc = "insertPayment"
  /\ \E dbok \in BOOLEAN :
       /\ payments' = IF dbok
                        THEN Append(payments, PaymentRow(wh[w].jobId,
                                      PaymentAmount(wh[w].amount_total), NULL, wh[w].sid))
                        ELSE payments
       /\ wh' = [wh EXCEPT ![w] = WhDone(@, 200)]
  /\ UNCHANGED <<jobs, profiles, requests, completed, co, mk, accounts, sc, cs, gl, su, newProfiles>>

\* Lines 79-103: insert the payment record and answer received: true.
WhInsertPayment(w) ==
  /\ wh[w].pc = "insertPayment"
  /\ \E dbok \in BOOLEAN :
       IF dbok
         THEN /\ payments' = Append(payments,
                   PaymentRow(wh[w].jobId, PaymentAmount(wh[w].amount_total), NULL, wh[w].sid))
              /\ wh' = [wh EXCEPT ![w] = WhDone(@, 200)]
         ELSE /\ wh' = [wh EXCEPT ![w] = WhDone(@, 500)]
              /\ UNCHANGED payments
  /\ UNCHANGED <<jobs, profiles, requests, completed, co, mk, accounts, sc, cs, gl, su, newProfiles>>

(***************************************************************************)
(* Dashboard: markAsPaid                                                   *)
(***************************************************************************)
\* The button is rendered for a job whose status is not 'paid'.
MkStart(m) ==
  /\ mk[m].pc = "idle"
  /\ InOrder(mk, m)
  /\ \E j \in JobIds :
       /\ jobs[j].status # "paid"
       /\ mk' = [mk EXCEPT ![m] = [@ EXCEPT !.pc = "updateJob", !.jobId = j,
                                            !.price = jobs[j].price]]
  /\ UNCHANGED <<jobs, profiles, payments, requests, completed, co, wh, accounts, sc, cs, gl, su, newProfiles>>

MkUpdateJob(m) ==
  /\ mk[m].pc = "updateJob"
  /\ \E dbok \in BOOLEAN :
       IF dbok
         THEN /\ jobs' = [jobs EXCEPT ![mk[m].jobId].status = "paid"]
              /\ mk' = [mk EXCEPT ![m].pc = "insertPayment"]
         ELSE /\ mk' = [mk EXCEPT ![m] = [@ EXCEPT !.pc = "done", !.outcome = "error"]]
              /\ UNCHANGED jobs
  /\ UNCHANGED <<profiles, payments, requests, completed, co, wh, accounts, sc, cs, gl, su, newProfiles>>

MkInsertPayment(m) ==
  /\ mk[m].pc = "insertPayment"
  /\ \E dbok \in BOOLEAN :
       IF dbok
         THEN /\ payments' = Append(payments,
                   PaymentRow(mk[m].jobId, mk[m].price, "manual", 0))
              /\ mk' = [mk EXCEPT ![m] = [@ EXCEPT !.pc = "done", !.outcome = "success"]]
         ELSE /\ mk' = [mk EXCEPT ![m] = [@ EXCEPT !.pc = "done", !.outcome = "error"]]
              /\ UNCHANGED payments
  /\ UNCHANGED <<jobs, profiles, requests, completed, co, wh, accounts, sc, cs, gl, su, newProfiles>>

\* The manual step that closes a paid job: status 'paid' to 'completed'.
CompleteJob(j) ==
  /\ jobs[j].status = "paid"
  /\ jobs' = [jobs EXCEPT ![j].status = "completed"]
  /\ UNCHANGED <<profiles, payments, requests, completed, co, wh, mk, accounts, sc, cs, gl, su, newProfiles>>

(***************************************************************************)
(* Initial states of the payment ledger: checkout sessions already issued. *)
(***************************************************************************)
\* Rows of jobs a session can be issued for: the price is chargeable.
Chargeable(j) ==
  {r \in JobRows(j) : ~InvalidPrice(r.price) /\ JobPriceInCents(r.price) >= MinChargeCents}

\* The request create-checkout sends, platform-only, for job j of row r.
IssuedSession(j, r) ==
  SessionConfig(1, [CoIdle EXCEPT !.jobId = j, !.price = r.price, !.company = r.company_id])

\* The URL the last of the sessions js issued for job j left on the job.
LastUrl(js, j) ==
  LET ks == {k \in DOMAIN js : js[k] = j}
  IN IF ks = {} THEN NoUrl ELSE SessionUrl(CHOOSE k \in ks : \A l \in ks : l <= k)

\* Nobody has connected an account; create-checkout has issued between one
\* and MaxSessions sessions, each for some job, and stored their URLs.
InitLedger ==
  /\ profiles = [u \in UserIds |-> ProfileRow("c1", NULL, FALSE)]
  /\ \E rows \in [JobIds -> UNION {Chargeable(j) : j \in JobIds}] :
       /\ \A j \in JobIds : rows[j] \in Chargeable(j) /\ rows[j].company_id = "c1"
       /\ \E n \in 1..MaxSessions : \E js \in [1..n -> JobIds] :
            /\ requests = [k \in 1..n |-> IssuedSession(js[k], rows[js[k]])]
            /\ jobs = [j \in JobIds |-> [rows[j] EXCEPT !.payment_url = LastUrl(js, j)]]
  /\ payments = <<>>
  /\ completed = {}
  /\ accounts = ExistingAccounts
  /\ Idle

\* The whole system from a fresh store: chargeable jobs of company c1, whose
\* owner u1 may have a verified connected account.
Init ==
  /\ \E rows \in [JobIds -> UNION {Chargeable(j) : j \in JobIds}] :
       /\ \A j \in JobIds : rows[j] \in Chargeable(j) /\ rows[j].company_id = "c1"
       /\ jobs = rows
  /\ \E a \in {NULL, "acct_X"} :
       profiles = [u \in UserIds |->
                     IF u = "u1" THEN ProfileRow("c1", a, a # NULL)
                                 ELSE ProfileRow("c1", NULL, FALSE)]
  /\ payments = <<>>
  /\ requests = <<>>
  /\ completed = {}
  /\ accounts = ExistingAccounts
  /\ Idle

(***************************************************************************)
(* stripe-connect                                                          *)
(***************************************************************************)
ScFail(r) == [r EXCEPT !.pc = "done", !.resp.status = 500, !.resp.success = FALSE]

\* The id of the next account the processor creates.
NextAccountId == NewAccountIds[Cardinality(DOMAIN accounts \ DOMAIN ExistingAccounts) + 1]

\* The onboarding link of account a.
OnboardingUrl(a) == <<"onboarding", a>>

\* A check of the Authorization header alone.
AuthenticatedByHeader(hdr, user) == hdr

\* An Authorization header is present and auth.getUser resolves its token to
\* a user (NULL: it does not).
Authenticated(hdr, user) == hdr /\ user # NULL

\* Lines 16-48: Authorization header, auth.getUser, the secret key. The
\* token is resolved only when the header is present.
ScStart(k) ==
  /\ sc[k].pc = "idle"
  /\ InOrder(sc, k)
  /\ \E hdr \in BOOLEAN, user \in UserIds \cup {NULL}, key \in BOOLEAN :
       sc' = [sc EXCEPT ![k] =
                LET r == [@ EXCEPT !.hdr = hdr, !.user = IF hdr THEN user ELSE NULL]
                IN IF ~Authenticated(hdr, user) \/ ~key THEN ScFail(r)
                   ELSE [r EXCEPT !.pc = "createAccount"]]
  /\ UNCHANGED <<jobs, profiles, payments, requests, completed, co, wh, mk, accounts, cs, gl, su, newProfiles>>

\* Lines 55-65: stripe.accounts.create; the new account can neither charge
\* nor pay out yet.
ScCreateAccount(k) ==
  /\ sc[k].pc = "createAccount"
  /\ \E ok \in BOOLEAN :
       IF ok
         THEN /\ accounts' = accounts @@ (NextAccountId :> Account(FALSE, FALSE))
              /\ sc' = [sc EXCEPT ![k] = [@ EXCEPT !.pc = "createLink",
                                                   !.acct = NextAccountId]]
         ELSE /\ sc' = [sc EXCEPT ![k] = ScFail(@)]
              /\ UNCHANGED accounts
  /\ UNCHANGED <<jobs, profiles, payments, requests, completed, co, wh, mk, cs, gl, su, newProfiles>>

\* Lines 67-76: stripe.accountLinks.create.
ScCreateLink(k) ==
  /\ sc[k].pc = "createLink"
  /\ \E ok \in BOOLEAN :
       sc' = [sc EXCEPT ![k] = IF ok THEN [@ EXCEPT !.pc = "updateProfile"] ELSE ScFail(@)]
  /\ UNCHANGED <<jobs, profiles, payments, requests, completed, co, wh, mk, accounts, cs, gl, su, newProfiles>>

\* Lines 78-98: store the account id on the caller's profile, log a failed
\* update, and answer success with the link and the account id.
ScUpdateProfile(k) ==
  /\ sc[k].pc = "updateProfile"
  /\ \E dbok \in BOOLEAN :
       /\ profiles' = IF dbok
                        THEN [profiles EXCEPT ![sc[k].user].stripe_account_id = sc[k].acct]
                        ELSE profiles
       /\ sc' = [sc EXCEPT ![k] =
                   [@ EXCEPT !.pc = "done",
                             !.wrote = IF dbok THEN "ok" ELSE "failed",
                             !.resp = [status |-> 200, success |-> TRUE,
                                       url |-> OnboardingUrl(sc[k].acct),
                                       account_id |-> sc[k].acct]]]
  /\ UNCHANGED <<jobs, payments, requests, completed, co, wh, mk, accounts, cs, gl, su, newProfiles>>

\* The account holder completes a part of the processor's onboarding.
Onboard(a) ==
  /\ a \in DOMAIN accounts
  /\ \E c, p \in BOOLEAN :
       /\ accounts[a].charges_enabled => c
       /\ accounts[a].payouts_enabled => p
       /\ Account(c, p) # accounts[a]
       /\ accounts' = [accounts EXCEPT ![a] = Account(c, p)]
  /\ UNCHANGED <<jobs, profiles, payments, requests, completed, co, wh, mk, sc, cs, gl, su, newProfiles>>

(***************************************************************************)
(* check-stripe-status                                                     *)
(***************************************************************************)
CsDone(r, st, con, a) ==
  [r EXCEPT !.pc = "done", !.resp = [status |-> st, connected |-> con, account_id |-> a]]

\* Lines 16-36: Authorization header and auth.getUser.
CsStart(k) ==
  /\ cs[k].pc = "idle"
  /\ InOrder(cs, k)
  /\ \E hdr \in BOOLEAN, user \in UserIds \cup {NULL} :
       cs' = [cs EXCEPT ![k] =
                LET r == [@ EXCEPT !.hdr = hdr, !.user = IF hdr THEN user ELSE NULL]
                IN IF ~Authenticated(hdr, user) THEN CsDone(r, 500, FALSE, NULL)
                   ELSE [r EXCEPT !.pc = "fetchProfile"]]
  /\ UNCHANGED <<jobs, profiles, payments, requests, completed, co, wh, mk, accounts, sc, gl, su, newProfiles>>

\* Lines 38-50: the caller's stripe_account_id; none is connected: false.
CsFetchProfile(k) ==
  /\ cs[k].pc = "fetchProfile"
  /\ \E dbok \in BOOLEAN :
       cs' = [cs EXCEPT ![k] =
                IF ~dbok \/ profiles[cs[k].user].stripe_account_id = NULL
                  THEN CsDone(@, 200, FALSE, NULL)
                ELSE [@ EXCEPT !.pc = "retrieve",
                               !.acct = profiles[cs[k].user].stripe_account_id]]
  /\ UNCHANGED <<jobs, profiles, payments, requests, completed, co, wh, mk, accounts, sc, gl, su, newProfiles>>

\* Connected as soon as one of the two capabilities is enabled.
IsConnectedEither(acc) == acc.charges_enabled \/ acc.payouts_enabled

\* account.charges_enabled && account.payouts_enabled
IsConnected(acc) == acc.charges_enabled /\ acc.payouts_enabled

\* Lines 57-65 and 78-84: stripe.accounts.retrieve and isConnected; the
\* answer when the account is not connected.
CsRetrieve(k) ==
  /\ cs[k].pc = "retrieve"
  /\ \E ok \in BOOLEAN :
       cs' = [cs EXCEPT ![k] =
                IF ~ok \/ cs[k].acct \notin DOMAIN accounts THEN CsDone(@, 500, FALSE, NULL)
                ELSE LET acc == accounts[cs[k].acct]
                         r == [@ EXCEPT !.charges_enabled = acc.charges_enabled,
                                        !.payouts_enabled = acc.payouts_enabled]
                     IN IF IsConnected(acc) THEN [r EXCEPT !.pc = "updateProfile"]
                        ELSE CsDone(r, 200, FALSE, cs[k].acct)]
  /\ UNCHANGED <<jobs, profiles, payments, requests, completed, co, wh, mk, accounts, sc, gl, su, newProfiles>>

\* Lines 67-84: set stripe_connected on the caller's profile, without a look
\* at the result of the update, and answer connected: true.
CsUpdateProfile(k) ==
  /\ cs[k].pc = "updateProfile"
  /\ \E dbok \in BOOLEAN :
       profiles' = IF dbok THEN [profiles EXCEPT ![cs[k].user].stripe_connected = TRUE]
                           ELSE profiles
  /\ cs' = [cs EXCEPT ![k] = CsDone(@, 200, TRUE, cs[k].acct)]
  /\ UNCHANGED <<jobs, payments, requests, completed, co, wh, mk, accounts, sc, gl, su, newProfiles>>

\* Users who have signed up; u1 has not begun onboarding, or has finished it
\* with the verified account acct_X. One job of the company.
InitConnect ==
  /\ jobs = [j \in JobIds |-> JobRow(Dec(100, 0), "c1")]
  /\ \E a \in {NULL, "acct_X"} :
       /\ profiles = [u \in UserIds |->
                        IF u = "u1" THEN ProfileRow("c1", a, a # NULL)
                                    ELSE ProfileRow("c1", NULL, FALSE)]
       /\ accounts = [b \in {a} \ {NULL} |-> Account(TRUE, TRUE)]
  /\ payments = <<>>
  /\ requests = <<>>
  /\ completed = {}
  /\ Idle

(***************************************************************************)
(* The dashboard's generatePaymentLink (ProfileTab.tsx)                    *)
(***************************************************************************)
\* Lines 492-518: functions.invoke resolves with the handler's body as data;
\* error is set only when the call itself failed, and the handler answers
\* every request with HTTP 200.  The body's success field is not read.
GlRespond(i) ==
  /\ co[i].pc = "done"
  /\ gl[i] = GlIdle
  /\ \E error \in BOOLEAN :
       gl' = [gl EXCEPT ![i] = IF error THEN "error" ELSE "success"]
  /\ UNCHANGED <<jobs, profiles, payments, requests, completed, co, wh, mk, accounts, sc, cs,
                 su, newProfiles>>

(***************************************************************************)
(* Sign-up through the Auth page (Auth.tsx, 002_auto_create_profile.sql)   *)
(***************************************************************************)
\* The row handle_new_user inserts for the k-th new user.
HandleNewUser(k) == [company_id |-> NewCompanyIds[k], role |-> "invoice_owner"]

\* The policy "Users can update own profile": auth.uid() = id.  A caller
\* without a session has no auth.uid(), and the update sees no row.
UpdatesOwnProfile(session, row) == session /\ row # NoProfile

SuDone(r, toast) == [r EXCEPT !.pc = "done", !.toast = toast]

\* handleAuth, lines 57-71 and 88-93: signUp inserts the auth.users row, and
\* the AFTER INSERT trigger on_auth_user_created inserts the profile inside
\* that statement.  signUp returns a session only when the project does not
\* ask for e-mail confirmation.
SignUp(k) ==
  /\ su[k].pc = "idle"
  /\ InOrder(su, k)
  /\ \E invite \in InviteIds \cup {NULL}, error \in BOOLEAN, session \in BOOLEAN :
       LET r == [su[k] EXCEPT !.invite = invite, !.session = session /\ ~error]
       IN IF error
          THEN /\ su' = [su EXCEPT ![k] = SuDone(r, "Error")]
               /\ UNCHANGED newProfiles
          ELSE /\ newProfiles' = [newProfiles EXCEPT ![k] = HandleNewUser(k)]
               /\ su' = [su EXCEPT ![k] =
                           IF invite # NULL
                           THEN [r EXCEPT !.pc = "inviteUpdate"]
                           ELSE SuDone(r, "Your company has been created!")]
  /\ UNCHANGED <<jobs, profiles, payments, requests, completed, co, wh, mk, accounts, sc, cs,
                 gl>>

\* handleInviteUser, lines 27-50, after its two seconds' wait, and the toasts
\* of lines 74-87: an update that matches no row reports no error.
HandleInviteUser(k) ==
  /\ su[k].pc = "inviteUpdate"
  /\ \E dbok \in BOOLEAN :
       IF ~dbok
       THEN /\ su' = [su EXCEPT ![k] = SuDone(@, "issue joining the team")]
            /\ UNCHANGED newProfiles
       ELSE /\ newProfiles' =
                 IF UpdatesOwnProfile(su[k].session, newProfiles[k])
                 THEN [newProfiles EXCEPT ![k] =
                         [company_id |-> su[k].invite, role |-> "teammate"]]
                 ELSE newProfiles
            /\ su' = [su EXCEPT ![k] = SuDone(@, "Welcome to the team!")]
  /\ UNCHANGED <<jobs, profiles, payments, requests, completed, co, wh, mk, accounts, sc, cs,
                 gl>>

NextCheckout ==
  \/ \E i \in CoInv : CoStart(i)
  \/ \E i \in CoInv : CoFetchJob(i)
  \/ \E i \in CoInv : CoRouting(i)
  \/ \E i \in CoInv : CoCreateSession(i)
  \/ \E i \in CoInv : CoUpdateJob(i)
  \/ \E i \in CoInv : CoFallback(i)

NextLedger ==
  \/ \E s \in 1..Len(requests) : CustomerPays(s)
  \/ \E w \in WhInv : WhReceive(w)
  \/ \E w \in WhInv : WhUpdateJob(w)
  \/ \E w \in WhInv : WhInsertPayment(w)
  \/ \E m \in MkInv : MkStart(m)
  \/ \E m \in MkInv : MkUpdateJob(m)
  \/ \E m \in MkInv : MkInsertPayment(m)
  \/ \E j \in JobIds : CompleteJob(j)

NextConnect ==
  \/ \E k \in ScInv : ScStart(k)
  \/ \E k \in ScInv : ScCreateAccount(k)
  \/ \E k \in ScInv : ScCreateLink(k)
  \/ \E k \in ScInv : ScUpdateProfile(k)
  \/ \E a \in DOMAIN accounts : Onboard(a)
  \/ \E k \in CsInv : CsStart(k)
  \/ \E k \in CsInv : CsFetchProfile(k)
  \/ \E k \in CsInv : CsRetrieve(k)
  \/ \E k \in CsInv : CsUpdateProfile(k)

\* The processor delivers again an event whose delivery was answered 500
\* after verification: the handler passes lines 17-58 as before.
Redeliver(w) ==
  /\ wh[w].pc = "done"
  /\ wh[w].status = 500
  /\ wh[w].jobId # NULL
  /\ wh' = [wh EXCEPT ![w] = [@ EXCEPT !.pc = "updateJob", !.status = 0]]
  /\ UNCHANGED <<jobs, profiles, payments, requests, completed, co, mk, accounts, sc, cs, gl, su, newProfiles>>

\* The steps of the webhook handler in which the store accepts the write.
WhUpdateJobOk(w) == WhUpdateJob(w) /\ wh'[w].pc = "insertPayment"
WhInsertPaymentOk(w) == WhInsertPayment(w) /\ wh'[w].status = 200

NextRedelivery ==
  \/ NextLedger
  \/ \E w \in WhInv : Redeliver(w)

NextDashboard ==
  \/ NextCheckout
  \/ \E i \in CoInv : GlRespond(i)

NextInvite ==
  \/ \E k \in SuInv : SignUp(k)
  \/ \E k \in SuInv : HandleInviteUser(k)

Next == NextDashboard \/ NextLedger \/ NextConnect \/ NextInvite

\* create-checkout alone, over every job and profile configuration.
SpecCheckout == InitCheckout /\ [][NextCheckout]_vars

\* The webhook handler, markAsPaid and the customer, over issued sessions.
SpecLedger == InitLedger /\ [][NextLedger]_vars

\* Onboarding: stripe-connect, the account holder and check-stripe-status.
SpecConnect == InitConnect /\ [][NextConnect]_vars

\* The ledger with a processor that keeps redelivering what was answered 500
\* and a store that, asked again and again, eventually accepts a write.
SpecRedelivery ==
  /\ InitLedger
  /\ [][NextRedelivery]_vars
  /\ \A w \in WhInv : /\ WF_vars(Redeliver(w))
                       /\ SF_vars(WhUpdateJobOk(w))
                       /\ SF_vars(WhInsertPaymentOk(w))

\* create-checkout called from the dashboard.
SpecDashboard == InitCheckout /\ [][NextDashboard]_vars

\* Sign-ups alone.
SpecInvite == InitConnect /\ [][NextInvite]_vars

\* The whole system, with at most MaxInvocations handler invocations in a run.
Spec == Init /\ [][Next]_vars

(***************************************************************************)
(* Properties of the payment ledger (SpecLedger)                           *)
(***************************************************************************)
\* Payment rows inserted for checkout session s.
PaymentsOfSession(s) == {k \in DOMAIN payments : payments[k].sid = s}

\* Paid payment rows of job j.
PaidPaymentsOfJob(j) ==
  {k \in DOMAIN payments : payments[k].job_id = j /\ payments[k].payment_status = "paid"}

\* Deliveries of the completed-checkout event of session s.
DeliveriesOf(s) ==
  {w \in WhInv : wh[w].sid = s /\ wh[w].type = "checkout.session.completed"}

\* C1: webhook idempotence. Once every delivery of the verified
\* completed-checkout event of a session has been answered, and at least one
\* was answered received: true, the store holds exactly one Payment Record
\* for that checkout and its job is paid.
C1_WebhookIdempotent ==
  \A s \in completed :
    ( /\ \A w \in DeliveriesOf(s) : wh[w].pc = "done"
      /\ \E w \in DeliveriesOf(s) : wh[w].status = 200 )
    => /\ Cardinality(PaymentsOfSession(s)) = 1
       /\ jobs[requests[s].meta_job].status = "paid"

\* C2: in every reachable state, every job whose status is paid has at
\* least one Payment Record of that job with payment_status paid.
C2_PaidJobHasPaidPayment ==
  \A j \in JobIds : jobs[j].status = "paid" => PaidPaymentsOfJob(j) # {}

\* C6: a webhook request whose signature does not verify against the
\* configured secret is answered 400 in the step that receives it, and that
\* step changes no job, payment or profile; the request is never processed
\* further.
C6_BadSignatureRejected ==
  [][\A w \in WhInv :
       (wh[w].pc = "idle" /\ wh'[w].pc # "idle" /\ wh'[w].sig = "bad" /\ wh'[w].configured)
       => /\ wh'[w].pc = "done"
          /\ wh'[w].status = 400
          /\ jobs' = jobs /\ payments' = payments /\ profiles' = profiles]_vars

\* A request with a bad signature has been rejected with 400 and the store
\* is as it was initially.
C6_Witness ==
  \E w \in WhInv :
    /\ wh[w].pc = "done" /\ wh[w].sig = "bad" /\ wh[w].configured /\ wh[w].status = 400
    /\ payments = <<>>
    /\ \A j \in JobIds : jobs[j].status = "pending"

\* C7: on a verified completed-checkout event that carries a job id, the
\* handler's first write sets exactly that job's status to paid, and its
\* second write appends exactly one Payment Record, of that job, with
\* payment_status paid and an amount equal to the total the processor
\* reported for the session; the job has been paid (and may have been
\* completed since) when the handler answers.
C7_WebhookMarksPaidAndRecords ==
  [][\A w \in WhInv :
       /\ (wh[w].pc = "updateJob" /\ wh'[w].pc = "insertPayment")
          => /\ wh[w].sig = "good" /\ wh[w].jobId \in JobIds
             /\ jobs' = [jobs EXCEPT ![wh[w].jobId].status = "paid"]
             /\ payments' = payments
       /\ (wh[w].pc = "insertPayment" /\ wh'[w].pc = "done" /\ wh'[w].status = 200)
          => /\ Len(payments') = Len(payments) + 1
             /\ SubSeq(payments', 1, Len(payments)) = payments
             /\ payments'[Len(payments')].job_id = wh[w].jobId
             /\ payments'[Len(payments')].payment_status = "paid"
             /\ ~payments'[Len(payments')].amount.nan
             /\ payments'[Len(payments')].amount.frac \in 0..99
             /\ Cents(payments'[Len(payments')].amount) = wh[w].amount_total
             /\ wh[w].amount_total = requests[wh[w].sid].unit_amount
             /\ jobs'[wh[w].jobId].status \in {"paid", "completed"}]_vars

\* The handler answered received: true for the checkout of the $10.10 job
\* and the ledger holds its record of 10.10.
C7_Witness ==
  \E w \in WhInv :
    /\ wh[w].pc = "done" /\ wh[w].status = 200 /\ wh[w].jobId \in JobIds
    /\ wh[w].amount_total = 1010
    /\ jobs[wh[w].jobId].status = "paid"
    /\ \E k \in PaymentsOfSession(wh[w].sid) :
         payments[k].job_id = wh[w].jobId /\ payments[k].amount = Dec(10, 10)

(***************************************************************************)
(* Properties of create-checkout (SpecCheckout)                            *)
(***************************************************************************)
\* The price of job j is a number of at least 50 minor units.
PriceAtLeastMinimum(j) == ~jobs[j].price.nan /\ Cents(jobs[j].price) >= 50

\* The company of job j has no connected account: no company id, no profile
\* of the company marked connected, or connected profiles without an id.
NoConnectedAccount(j) ==
  \/ jobs[j].company_id = NULL
  \/ \A u \in ConnectedProfiles(jobs[j].company_id) : profiles[u].stripe_account_id = NULL

\* A profile of job j's company is marked connected with the platform's own
\* account id.
PlatformIsConnectedAccount(j) ==
  /\ jobs[j].company_id # NULL
  /\ \E u \in ConnectedProfiles(jobs[j].company_id) :
       profiles[u].stripe_account_id = PLATFORM_STRIPE_ACCOUNT_ID

\* Request q charges job j's price on the platform account alone.
PlatformOnlyRequest(q, j) ==
  /\ q.unit_amount = Cents(jobs[j].price)
  /\ ~q.has_pid /\ q.application_fee_amount = 0
  /\ q.destination = NULL /\ q.stripeAccount = NULL
  /\ q.meta_routing = "platform_only" /\ Cents(q.meta_fee) = 0

\* Invocation i is not rejected for its price, never enters the fallback,
\* and a success reports routing platform_only with fee 0 for its own session.
PlatformOnlyResponse(i) ==
  /\ co[i].resp.error \notin {"invalid price", "price too low"}
  /\ co[i].pc # "fallback"
  /\ (co[i].pc = "done" /\ co[i].resp.success)
     => /\ co[i].resp.method = "platform_only" /\ co[i].resp.fee = 0
        /\ co[i].resp.dest = "platform"
        /\ co[i].resp.sessionId \in DOMAIN requests
        /\ requests[co[i].resp.sessionId].inv = i
        /\ requests[co[i].resp.sessionId].outcome = "ok"

\* C3: for a job priced at 50 minor units or more whose company has no
\* connected account, every session request charges exactly the job price in
\* minor units with no application fee and no transfer destination, and the
\* response reports platform_only with fee 0.
C3_NoAccountPlatformOnly ==
  /\ \A n \in DOMAIN requests :
       NoConnectedAccount(requests[n].meta_job)
       => PlatformOnlyRequest(requests[n], requests[n].meta_job)
  /\ \A i \in CoInv :
       (co[i].pc \notin {"idle", "fetchJob"} /\ co[i].jobId \in JobIds
        /\ NoConnectedAccount(co[i].jobId) /\ PriceAtLeastMinimum(co[i].jobId))
       => PlatformOnlyResponse(i)

\* The $100.00 scenario: unit amount 10000, fee 0, platform_only, answered.
C3_Witness ==
  \E i \in CoInv :
    /\ co[i].pc = "done" /\ co[i].resp.success /\ NoConnectedAccount(co[i].jobId)
    /\ jobs[co[i].jobId].price = Dec(100, 0)
    /\ requests[co[i].resp.sessionId].unit_amount = 10000
    /\ co[i].resp.method = "platform_only" /\ co[i].resp.fee = 0

\* fee is five percent of cents, to the nearest minor unit.
FivePercent(fee, cents) ==
  /\ 100 * fee - 5 * cents \in -50..50
  /\ cents % 20 = 0 => 100 * fee = 5 * cents

\* The account ids of the profiles of company c that are marked connected
\* and differ from the platform account.
VerifiedAccounts(c) ==
  {profiles[u].stripe_account_id : u \in ConnectedProfiles(c)}
    \ {NULL, PLATFORM_STRIPE_ACCOUNT_ID}

C5_SelfTransferGuard ==
  /\ \A n \in DOMAIN requests :
       /\ requests[n].destination # PLATFORM_STRIPE_ACCOUNT_ID
       /\ requests[n].stripeAccount # PLATFORM_STRIPE_ACCOUNT_ID
       /\ PlatformIsConnectedAccount(requests[n].meta_job)
          => PlatformOnlyRequest(requests[n], requests[n].meta_job)
  /\ \A i \in CoInv :
       (co[i].pc \notin {"idle", "fetchJob"} /\ co[i].jobId \in JobIds
        /\ PlatformIsConnectedAccount(co[i].jobId) /\ PriceAtLeastMinimum(co[i].jobId))
       => PlatformOnlyResponse(i)

\* A checkout of a job whose company's only connected profile holds the
\* platform account id has succeeded.
C5_Witness ==
  \E i \in CoInv :
    /\ co[i].pc = "done" /\ co[i].resp.success
    /\ PlatformIsConnectedAccount(co[i].jobId)
    /\ Cardinality(ConnectedProfiles(jobs[co[i].jobId].company_id)) = 1
    /\ ~co[i].profileError
    /\ co[i].acct = PLATFORM_STRIPE_ACCOUNT_ID
    /\ requests[co[i].resp.sessionId].destination = NULL

\* The session requests invocation i has sent.
RequestsOf(i) == {n \in DOMAIN requests : requests[n].inv = i}

\* The last request of a non-empty set of requests.
LastOf(ns) == CHOOSE n \in ns : \A m \in ns : m <= n

\* C8: after the processor rejects an invocation's request with the
\* self-transfer error, the invocation sends exactly one more request,
\* without transfer destination and application fee, and when the processor
\* accepts it the response is a success with the fallback session's URL.
C8_SelfTransferFallback ==
  \A i \in CoInv :
    (\E n \in RequestsOf(i) : requests[n].outcome = "self_transfer")
    => /\ co[i].pc \in {"fallback", "done"}
       /\ co[i].pc = "fallback" => Cardinality(RequestsOf(i)) = 1
       /\ co[i].pc = "done"
          => LET q == requests[LastOf(RequestsOf(i))]
             IN /\ Cardinality(RequestsOf(i)) = 2
                /\ q.fallback /\ ~q.has_pid /\ q.application_fee_amount = 0
                /\ q.destination = NULL /\ q.stripeAccount = NULL
                /\ q.unit_amount = Cents(jobs[q.meta_job].price)
                /\ q.outcome # "self_transfer"
                /\ q.outcome = "ok"
                   => /\ co[i].resp.success
                      /\ co[i].resp.url = SessionUrl(LastOf(RequestsOf(i)))
                      /\ co[i].resp.sessionId = LastOf(RequestsOf(i))
                /\ q.outcome = "error" => ~co[i].resp.success

\* A self-transfer rejection was followed by an accepted fallback request
\* and a success response.
C8_Witness ==
  \E i \in CoInv :
    /\ co[i].pc = "done" /\ co[i].resp.success
    /\ \E n \in RequestsOf(i) : requests[n].outcome = "self_transfer"
    /\ requests[co[i].resp.sessionId].fallback

\* C9: in the step in which create-checkout answers success, by the first
\* session creation or by the fallback, without a failed job write, the
\* job's stored payment URL is the URL of the response.
C9_StoredUrlIsReturnedUrl ==
  [][\A i \in CoInv :
       (co[i].pc # "done" /\ co'[i].pc = "done" /\ co'[i].resp.success
        /\ co'[i].wrote # "failed")
       => jobs'[co[i].jobId].payment_url = co'[i].resp.url]_vars

\* C10: when the write of the URL fails after the processor created the
\* session, the response is still success: true with that session's URL and
\* id, and the step leaves every job row as it was.
C10_WriteFailureStillSuccess ==
  [][\A i \in CoInv :
       (co[i].pc = "updateJob" /\ co'[i].wrote = "failed")
       => /\ co'[i].pc = "done"
          /\ co'[i].resp.success
          /\ co[i].sid \in DOMAIN requests /\ requests[co[i].sid].outcome = "ok"
          /\ requests[co[i].sid].inv = i
          /\ co'[i].resp.url = SessionUrl(co[i].sid)
          /\ co'[i].resp.sessionId = co[i].sid
          /\ jobs' = jobs]_vars

\* A checkout answered success although its write failed; the job has no URL.
C10_Witness ==
  \E i \in CoInv :
    /\ co[i].pc = "done" /\ co[i].wrote = "failed" /\ co[i].resp.success
    /\ co[i].resp.url # NoUrl
    /\ jobs[co[i].jobId].payment_url = NoUrl

(***************************************************************************)
(* Rejections of create-checkout (SpecCheckout)                            *)
(***************************************************************************)
\* The price of job j is positive and below the processor's minimum.
PriceBelowMinimum(j) ==
  ~jobs[j].price.nan /\ Cents(jobs[j].price) \in 1..(MinChargeCents - 1)

\* Invocation i has read the row of an existing job and gone past the
\* routing and price checks.
PastPriceChecks(i) ==
  /\ co[i].jobId \in JobIds
  /\ co[i].pc \notin {"idle", "fetchJob", "routing"}
  /\ co[i].resp.error # "fetch job"

\* The row of job j is as its creation left it.
Untouched(j) == jobs[j] = JobRow(jobs[j].price, jobs[j].company_id)

\* C11: for a job whose price is positive but below 50 minor units,
\* create-checkout answers with the price-below-minimum error, no session
\* request for the job is ever sent to the processor, and no field of the
\* job is modified.
C11_BelowMinimumRejected ==
  /\ \A n \in DOMAIN requests : ~PriceBelowMinimum(requests[n].meta_job)
  /\ \A i \in CoInv :
       (PastPriceChecks(i) /\ PriceBelowMinimum(co[i].jobId))
       => /\ co[i].pc = "done" /\ ~co[i].resp.success
          /\ co[i].resp.error = "price too low"
          /\ co[i].nreq = 0
  /\ \A j \in JobIds : PriceBelowMinimum(j) => Untouched(j)

\* The $0.30 scenario: rejected, the processor has received nothing.
C11_Witness ==
  \E i \in CoInv :
    /\ co[i].pc = "done" /\ co[i].resp.error = "price too low"
    /\ jobs[co[i].jobId].price = Dec(0, 30)
    /\ requests = <<>>

\* The price of job j is missing or not a number, zero, or negative.
PriceInvalid(j) == jobs[j].price.nan \/ Cents(jobs[j].price) <= 0

\* C12: for a job whose price is missing, non-numeric, zero or negative,
\* create-checkout answers with the invalid-price error, no session request
\* for the job is ever sent to the processor, and the job, the profiles and
\* the payments stay as they were.
C12_InvalidPriceRejected ==
  /\ \A n \in DOMAIN requests : ~PriceInvalid(requests[n].meta_job)
  /\ \A i \in CoInv :
       (PastPriceChecks(i) /\ PriceInvalid(co[i].jobId))
       => /\ co[i].pc = "done" /\ ~co[i].resp.success
          /\ co[i].resp.error = "invalid price"
          /\ co[i].nreq = 0
  /\ \A j \in JobIds : PriceInvalid(j) => Untouched(j)
  /\ (\E i \in CoInv : co[i].resp.error = "invalid price") => payments = <<>>

\* A job priced 0.00 and a job without a numeric price have been rejected.
C12_Witness ==
  /\ \E i \in CoInv :
       /\ co[i].pc = "done" /\ co[i].resp.error = "invalid price"
       /\ jobs[co[i].jobId].price \in {Dec(0, 0), Dec(-5, 0), NaNPrice}
  /\ requests = <<>>

\* C13 as claimed: a jobId that references no job is answered "Job not
\* found", without a session request and without a change of a job.
C13_UnknownJobNotFound ==
  \A i \in CoInv :
    (co[i].jobId = GhostJobId /\ co[i].pc \notin {"idle", "fetchJob"})
    => /\ co[i].pc = "done" /\ ~co[i].resp.success
       /\ co[i].resp.error = "job not found"
       /\ co[i].nreq = 0

\* C14: a verified completed-checkout event without a job id in its metadata
\* is answered 400 in the step that receives it, and that step changes no
\* job and inserts no Payment Record; the event is not processed further.
C14_NoJobIdRejected ==
  [][\A w \in WhInv :
       (wh[w].pc = "idle" /\ wh'[w].pc # "idle" /\ wh'[w].sig = "good"
        /\ wh'[w].configured /\ wh'[w].type = "checkout.session.completed"
        /\ wh'[w].jobId = NULL)
       => /\ wh'[w].pc = "done"
          /\ wh'[w].status = 400
          /\ jobs' = jobs /\ payments' = payments]_vars

\* A verified completed-checkout event without job id was answered 400 and
\* the ledger is empty.
C14_Witness ==
  \E w \in WhInv :
    /\ wh[w].pc = "done" /\ wh[w].sig = "good" /\ wh[w].configured
    /\ wh[w].type = "checkout.session.completed" /\ wh[w].jobId = NULL
    /\ wh[w].status = 400
    /\ payments = <<>>
    /\ \A j \in JobIds : jobs[j].status = "pending"

(***************************************************************************)
(* Job status (SpecLedger)                                                 *)
(***************************************************************************)
\* C15: a job's status only ever changes from pending to paid and from paid
\* to completed; no step moves a completed job back to paid.
C15_StatusOnlyAdvances ==
  [][\A j \in JobIds :
       jobs'[j].status # jobs[j].status
       => <<jobs[j].status, jobs'[j].status>>
            \in {<<"pending", "paid">>, <<"paid", "completed">>}]_vars

(***************************************************************************)
(* Onboarding (SpecConnect)                                                *)
(***************************************************************************)
\* C16: a profile's connected flag becomes true only in the profile update
\* of a check-stripe-status invocation of that profile's user to which the
\* processor reported the account as charges-enabled and payouts-enabled;
\* no step of stripe-connect changes a connected flag.
C16_ConnectedOnlyWhenVerified ==
  [][/\ \A u \in UserIds :
          (~profiles[u].stripe_connected /\ profiles'[u].stripe_connected)
          => \E k \in CsInv :
               /\ cs[k].pc = "updateProfile" /\ cs'[k].pc = "done"
               /\ cs[k].user = u
               /\ cs[k].charges_enabled /\ cs[k].payouts_enabled
               /\ cs'[k].resp.connected
     /\ sc' # sc
          => \A u \in UserIds :
               profiles'[u].stripe_connected = profiles[u].stripe_connected]_vars

\* A profile has been marked connected after stripe-connect stored an
\* account on it and the account was fully onboarded.
C16_Witness ==
  \E u \in UserIds :
    /\ profiles[u].stripe_connected
    /\ profiles[u].stripe_account_id \in DOMAIN accounts
    /\ IsConnected(accounts[profiles[u].stripe_account_id])
    /\ \E k \in ScInv : sc[k].pc = "done" /\ sc[k].user = u /\ sc[k].wrote = "ok"
    /\ \E k \in CsInv : cs[k].pc = "done" /\ cs[k].user = u /\ cs[k].resp.connected

\* C17 as claimed: in the step in which stripe-connect answers success with
\* an onboarding url and an account_id, the caller's profile stores that
\* account_id as its sub-account id.
C17_ProfileStoresAccountId ==
  [][\A k \in ScInv :
       (sc[k].pc # "done" /\ sc'[k].pc = "done" /\ sc'[k].resp.success)
       => /\ sc'[k].resp.url # NULL /\ sc'[k].resp.account_id # NULL
          /\ profiles'[sc[k].user].stripe_account_id = sc'[k].resp.account_id]_vars

C19_AtMostTwoProcessorCalls ==
  \A i \in CoInv :
    /\ Cardinality(RequestsOf(i)) <= 2
    /\ co[i].nreq = Cardinality(RequestsOf(i))
    /\ \A n \in RequestsOf(i) :
         /\ requests[n].fallback
            <=> \E m \in RequestsOf(i) : m < n /\ requests[m].outcome = "self_transfer"
         /\ requests[n].outcome = "error"
            => /\ n = LastOf(RequestsOf(i))
               /\ co[i].pc = "done" /\ ~co[i].resp.success

\* A fallback request was itself rejected and the caller was told so.
C19_Witness ==
  \E i \in CoInv :
    /\ co[i].pc = "done" /\ ~co[i].resp.success /\ co[i].nreq = 2
    /\ \E n \in RequestsOf(i) : requests[n].fallback /\ requests[n].outcome = "error"

\* C20: every response of create-checkout carries the success flag, and the
\* flag is true exactly when the processor created a session for the
\* invocation; the response then returns that session's URL and id.
C20_SuccessFlagOnEveryResponse ==
  \A i \in CoInv :
    co[i].pc = "done"
    => /\ co[i].resp.flag
       /\ co[i].resp.success <=> \E n \in RequestsOf(i) : requests[n].outcome = "ok"
       /\ co[i].resp.success
          => /\ co[i].resp.sessionId \in RequestsOf(i)
             /\ requests[co[i].resp.sessionId].outcome = "ok"
             /\ co[i].resp.url = SessionUrl(co[i].resp.sessionId)
             /\ co[i].resp.url # NoUrl
       /\ ~co[i].resp.success => co[i].resp.url = NoUrl /\ co[i].resp.error # "none"

\* Responses of both kinds have been sent: an error before any processor
\* call, and a success.
C20_Witness ==
  \E i, h \in CoInv :
    /\ co[i].pc = "done" /\ co[i].resp.flag /\ ~co[i].resp.success /\ co[i].nreq = 0
    /\ co[h].pc = "done" /\ co[h].resp.flag /\ co[h].resp.success

(***************************************************************************)
(* Authentication of the onboarding handlers (SpecConnect)                 *)
(***************************************************************************)
\* C21: stripe-connect and check-stripe-status, invoked without an
\* Authorization header or with a token that resolves to no user, answer
\* with an error in the step that receives the request; no account is
\* created, none is retrieved and no profile is written, then or later.
C21_UnauthenticatedRejected ==
  [][/\ \A k \in ScInv :
          (sc[k].pc = "idle" /\ sc'[k].pc # "idle"
           /\ (~sc'[k].hdr \/ sc'[k].user = NULL))
          => /\ sc'[k].pc = "done"
             /\ sc'[k].resp.status = 500 /\ ~sc'[k].resp.success
             /\ sc'[k].acct = NULL
             /\ accounts' = accounts /\ profiles' = profiles
     /\ \A k \in CsInv :
          (cs[k].pc = "idle" /\ cs'[k].pc # "idle"
           /\ (~cs'[k].hdr \/ cs'[k].user = NULL))
          => /\ cs'[k].pc = "done"
             /\ cs'[k].resp.status = 500 /\ ~cs'[k].resp.connected
             /\ cs'[k].acct = NULL
             /\ accounts' = accounts /\ profiles' = profiles]_vars

\* Both handlers have turned away an unauthenticated request; the processor
\* has no account and no profile has an account id.
C21_Witness ==
  /\ \E k \in ScInv : sc[k].pc = "done" /\ sc[k].hdr /\ sc[k].user = NULL
                        /\ sc[k].resp.status = 500
  /\ \E k \in CsInv : cs[k].pc = "done" /\ ~cs[k].hdr /\ cs[k].resp.status = 500
  /\ DOMAIN accounts = {}
  /\ \A u \in UserIds : profiles[u].stripe_account_id = NULL

(***************************************************************************)
(* Frame of the job writes (Spec)                                          *)
(***************************************************************************)
\* C22: no step changes a job's price (nor its company): a step of
\* create-checkout changes at most jobs' URL, a step of the webhook handler
\* or of markAsPaid at most jobs' status, and a step of stripe-connect or
\* check-stripe-status no job at all.
C22_PriceNeverChanges ==
  [][/\ \A j \in JobIds : /\ jobs'[j].price = jobs[j].price
                           /\ jobs'[j].company_id = jobs[j].company_id
     /\ co' # co
          => \A j \in JobIds : [jobs'[j] EXCEPT !.payment_url = jobs[j].payment_url] = jobs[j]
     /\ (wh' # wh \/ mk' # mk)
          => \A j \in JobIds : [jobs'[j] EXCEPT !.status = jobs[j].status] = jobs[j]
     /\ (sc' # sc \/ cs' # cs) => jobs' = jobs]_vars

\* A session was issued for a job and its URL stored, the customer paid and
\* the webhook recorded it: the job still has the price the session charged.
C22_Witness ==
  \E n \in DOMAIN requests :
    LET j == requests[n].meta_job
    IN /\ requests[n].outcome = "ok"
       /\ jobs[j].payment_url = SessionUrl(n)
       /\ jobs[j].status = "paid"
       /\ PaymentsOfSession(n) # {}
       /\ Cents(jobs[j].price) = requests[n].unit_amount

(***************************************************************************)
(* Metadata of the session requests (SpecCheckout)                         *)
(***************************************************************************)
\* C23: in every session request sent to the processor, the fallback request
\* included, transfer destination and application fee are present if and
\* only if the metadata routing method is connected_account, and the
\* metadata fee amount is zero whenever no application fee is requested.
C23_MetadataMatchesRouting ==
  \A n \in DOMAIN requests :
    LET q == requests[n]
    IN /\ q.has_pid <=> q.meta_routing = "connected_account"
       /\ q.has_pid <=> q.destination # NULL
       /\ (~q.has_pid \/ q.application_fee_amount = 0) => Cents(q.meta_fee) = 0

(***************************************************************************)
(* Connected flag and sub-account id (SpecConnect)                         *)
(***************************************************************************)
\* C24: in every reachable state, a profile whose connected flag is true
\* holds the id of an account the processor reports as charges- and
\* payouts-enabled, the one check-stripe-status verified; the flag is never
\* true next to a newly created, unverified account id.
C24_ConnectedProfileHoldsVerifiedAccount ==
  \A u \in UserIds :
    profiles[u].stripe_connected
    => /\ profiles[u].stripe_account_id \in DOMAIN accounts
       /\ IsConnected(accounts[profiles[u].stripe_account_id])

(***************************************************************************)
(* Routing decision (SpecCheckout)                                         *)
(***************************************************************************)
\* Exactly one profile of company c is marked connected, and its account id
\* is set and is not the platform's.
OneVerifiedProfile(c) ==
  /\ c # NULL
  /\ Cardinality(ConnectedProfiles(c)) = 1
  /\ VerifiedAccounts(c) # {}

C26_AtMostOnePaidRecord ==
  ( /\ \A w \in WhInv : wh[w].pc \in {"idle", "done"}
    /\ \A m \in MkInv : mk[m].pc \in {"idle", "done"} )
  => \A j \in JobIds : Cardinality(PaidPaymentsOfJob(j)) <= 1

(***************************************************************************)
(* Recovery from a failed insert (SpecRedelivery)                          *)
(***************************************************************************)
\* C27: a delivery whose Payment Record insert fails, after the job was set
\* to paid, is answered 500 and not received: true; and, the processor
\* redelivering and the store eventually accepting writes, a delivery
\* answered 500 for a failed write is eventually followed by a paid Payment
\* Record of its job.
C27_FailedInsertRecovers ==
  /\ [][\A w \in WhInv :
          (wh[w].pc = "insertPayment" /\ wh'[w].pc = "done" /\ payments' = payments)
          => wh'[w].status = 500]_vars
  /\ \A w \in WhInv : \A j \in JobIds :
       (wh[w].pc = "done" /\ wh[w].status = 500 /\ wh[w].jobId = j)
       ~> (PaidPaymentsOfJob(j) # {})

\* The insert of a delivery has failed: its job is paid, the ledger is
\* empty and the delivery was answered 500.
C27_Witness ==
  \E w \in WhInv :
    /\ wh[w].pc = "done" /\ wh[w].status = 500 /\ wh[w].jobId \in JobIds
    /\ jobs[wh[w].jobId].status = "paid"
    /\ payments = <<>>
    /\ \A m \in MkInv : mk[m].pc = "idle"
    /\ \A v \in WhInv \ {w} : wh[v].pc = "idle"

C29_SuccessToastOnlyOnSuccess ==
  \A i \in CoInv :
    /\ gl[i] = "success" => (co[i].resp.success /\ co[i].resp.url # NoUrl)
    /\ (gl[i] # GlIdle /\ ~co[i].resp.success) => gl[i] = "error"

(***************************************************************************)
(* Invited sign-ups (SpecInvite)                                           *)
(***************************************************************************)
\* C30: once the sign-up of an invited user has completed, the new user's
\* profile carries the invited company's id and the role teammate.
C30_InvitedUserJoinsCompany ==
  \A k \in SuInv :
    (su[k].pc = "done" /\ su[k].invite # NULL /\ su[k].toast # "Error")
    => newProfiles[k] = [company_id |-> su[k].invite, role |-> "teammate"]

====
